---------------------------- MODULE Spec2Model ----------------------------
(***************************************************************************)
(* s5-utils-js: the base-N codecs (base58 Bitcoin alphabet, base32 RFC     *)
(* 4648, base64url), the little-endian size packing, the multihash and CID *)
(* byte layout, and the prefix-tagged CID strings built on them.           *)
(*                                                                         *)
(* Every function of the library but the two that hash a file is pure.     *)
(* The state machine below is one caller of the library: it calls one      *)
(* function on an input drawn from a bounded set, may then call a second   *)
(* function on the value the first returned, and records each call, its    *)
(* argument and what it returned.  The two asynchronous functions that     *)
(* hash a file run in steps, one step from each await to the next.         *)
(*                                                                         *)
(* Byte buffers are sequences over 0..255.  JavaScript strings are         *)
(* sequences of one-character strings.  A JavaScript number that does not  *)
(* fit TLC's 32-bit integers is a pair <<hi, lo>> of value                 *)
(* hi * 65536 + lo with lo in 0..65535.                                    *)
(***************************************************************************)
EXTENDS Integers, Sequences, FiniteSets

VARIABLES
    fn,     \* the name of the function called last
    arg,    \* the argument it was given
    ret,    \* what it returned: [kind |-> _, val |-> _], see Return values
    src,    \* the call whose return value is arg, [fn |-> "none", ...] for a fresh input
    pc,     \* where the file-hashing function stands: the await it is suspended at
    position,   \* its local variable position
    chunk,  \* the slice of the file whose arrayBuffer() it awaits, as <<start, end>>
    hasher  \* the calls the hasher has received, in order

vars == <<fn, arg, ret, src, pc, position, chunk, hasher>>

(***************************************************************************)
(* Return values                                                           *)
(***************************************************************************)
Bytes(b) == [kind |-> "bytes", val |-> b]
Str(s) == [kind |-> "str", val |-> s]
Num(n) == [kind |-> "num", val |-> n]
Throw(msg) == [kind |-> "throw", val |-> msg]
Undefined == [kind |-> "undefined", val |-> "undefined"]

(***************************************************************************)
(* Alphabets and character helpers                                         *)
(***************************************************************************)
ALPHABET ==
    <<"1", "2", "3", "4", "5", "6", "7", "8", "9", "A", "B", "C", "D", "E", "F",
    "G", "H", "J", "K", "L", "M", "N", "P", "Q", "R", "S", "T", "U", "V", "W",
    "X", "Y", "Z", "a", "b", "c", "d", "e", "f", "g", "h", "i", "j", "k", "m",
    "n", "o", "p", "q", "r", "s", "t", "u", "v", "w", "x", "y", "z">>

BASE32_ALPHABET ==
    <<"A", "B", "C", "D", "E", "F", "G", "H", "I", "J", "K", "L", "M", "N", "O",
    "P", "Q", "R", "S", "T", "U", "V", "W", "X", "Y", "Z", "2", "3", "4", "5",
    "6", "7">>

\* the alphabet of the platform's btoa / atob
BASE64_ALPHABET ==
    <<"A", "B", "C", "D", "E", "F", "G", "H", "I", "J", "K", "L", "M", "N", "O",
    "P", "Q", "R", "S", "T", "U", "V", "W", "X", "Y", "Z", "a", "b", "c", "d",
    "e", "f", "g", "h", "i", "j", "k", "l", "m", "n", "o", "p", "q", "r", "s",
    "t", "u", "v", "w", "x", "y", "z", "0", "1", "2", "3", "4", "5", "6", "7",
    "8", "9", "+", "/">>

UpperLetters ==
    <<"A", "B", "C", "D", "E", "F", "G", "H", "I", "J", "K", "L", "M", "N", "O",
    "P", "Q", "R", "S", "T", "U", "V", "W", "X", "Y", "Z">>

LowerLetters ==
    <<"a", "b", "c", "d", "e", "f", "g", "h", "i", "j", "k", "l", "m", "n", "o",
    "p", "q", "r", "s", "t", "u", "v", "w", "x", "y", "z">>


\* String.prototype.indexOf for a single character: 0-based, -1 when absent
IndexOf(alphabet, c) ==
    IF \E i \in 1..Len(alphabet) : alphabet[i] = c
    THEN (CHOOSE i \in 1..Len(alphabet) :
              alphabet[i] = c /\ \A k \in 1..(i - 1) : alphabet[k] # c) - 1
    ELSE -1

\* String.prototype.substring(1)
Substring1(s) == SubSeq(s, 2, Len(s))

\* Array.prototype.reverse
Reverse(s) == [i \in 1..Len(s) |-> s[Len(s) - i + 1]]

(***************************************************************************)
(* Loops.  A for loop that walks an array or a string from its first to    *)
(* its last element, carrying the variables it updates, is the left fold   *)
(* of its body: LoopBody(loop, acc, x) is one iteration of the loop named  *)
(* loop on element x, acc holding the loop's variables.  The fold          *)
(* splits the range in two and finishes the first half before it starts    *)
(* the second, which visits the elements in the loop's order.              *)
(***************************************************************************)
RECURSIVE FoldLeft(_, _, _, _, _)

\* the whole loop named loop over s, started with init
ForEach(loop, init, s) == FoldLeft(loop, init, s, 1, Len(s))

(***************************************************************************)
(* base58BitcoinEncode: digits holds the number in base 58, least          *)
(* significant digit first (digits[1] is the code's digits[0]).            *)
(***************************************************************************)
\* for (j ...) digits[j] <<= 8;  then  digits[0] += bytes[i]
ShiftInByte(digits, byte) ==
    [j \in 1..Len(digits) |->
        IF j = 1 THEN digits[j] * 256 + byte ELSE digits[j] * 256]

\* for (j ...) { digits[j] += carry; carry = (digits[j] / 58) | 0; digits[j] %= 58 }
\* acc is <<digits[0 .. j-1], carry>>
Base58CarryBody(acc, digit) ==
    <<Append(acc[1], (digit + acc[2]) % 58), (digit + acc[2]) \div 58>>

\* while (carry) { digits.push(carry % 58); carry = (carry / 58) | 0 }
RECURSIVE Base58PushCarry(_, _)
Base58PushCarry(digits, carry) ==
    IF carry = 0
    THEN digits
    ELSE Base58PushCarry(Append(digits, carry % 58), carry \div 58)

\* one iteration of the loop over the input bytes
Base58EncodeBody(digits, byte) ==
    LET p == ForEach("Base58CarryBody", <<<<>>, 0>>, ShiftInByte(digits, byte))
    IN  Base58PushCarry(p[1], p[2])

\* while (digits[digits.length - 1] === 0) digits.pop();
\* on the empty array digits[-1] is undefined and the loop stops
RECURSIVE Base58PopZeros(_)
Base58PopZeros(digits) ==
    IF Len(digits) > 0 /\ digits[Len(digits)] = 0
    THEN Base58PopZeros(SubSeq(digits, 1, Len(digits) - 1))
    ELSE digits

base58BitcoinEncode(bytes) ==
    LET digits == Base58PopZeros(ForEach("Base58EncodeBody", <<0>>, bytes))
    IN  [i \in 1..Len(digits) |-> ALPHABET[digits[Len(digits) - i + 1] + 1]]

(***************************************************************************)
(* base58BitcoinDecode: bytes holds the number in base 256, least          *)
(* significant byte first, and is reversed at the end.                     *)
(***************************************************************************)
\* for (j ...) { value += bytes[j] * 58; bytes[j] = value & 0xff; value >>= 8 }
\* acc is <<bytes[0 .. j-1], value>>
Base58MulBody(acc, byte) ==
    <<Append(acc[1], (acc[2] + byte * 58) % 256), (acc[2] + byte * 58) \div 256>>

\* while (value > 0) { bytes.push(value & 0xff); value >>= 8 }
RECURSIVE Base58PushValue(_, _)
Base58PushValue(bytes, value) ==
    IF value > 0
    THEN Base58PushValue(Append(bytes, value % 256), value \div 256)
    ELSE bytes

\* a variant that skips a character outside ALPHABET instead of throwing
Base58DecodeBody_SkipInvalid(acc, char) ==
    IF IndexOf(ALPHABET, char) = -1 THEN acc
    ELSE LET p == ForEach("Base58MulBody", <<<<>>, IndexOf(ALPHABET, char)>>, acc.val)
         IN  Bytes(Base58PushValue(p[1], p[2]))

\* one iteration of the loop over the characters: a character outside
\* ALPHABET throws, and a throw ends the loop
Base58DecodeBody(acc, char) ==
    IF acc.kind = "throw" THEN acc
    ELSE IF IndexOf(ALPHABET, char) = -1 THEN Throw("Invalid Base58Bitcoin string")
    ELSE LET p == ForEach("Base58MulBody", <<<<>>, IndexOf(ALPHABET, char)>>, acc.val)
         IN  Bytes(Base58PushValue(p[1], p[2]))

base58BitcoinDecode(str) ==
    LET r == ForEach("Base58DecodeBody", Bytes(<<>>), str)
    IN  IF r.kind = "throw" THEN r ELSE Bytes(Reverse(r.val))

(***************************************************************************)
(* JavaScript's 32-bit integer operators.  A 32-bit pattern is a pair      *)
(* <<hi, lo>> of 16-bit halves, so that << keeps exactly the low 32 bits.  *)
(***************************************************************************)
RECURSIVE BitOr(_, _)
BitOr(a, b) ==
    IF a = 0 THEN b
    ELSE IF b = 0 THEN a
    ELSE (IF a % 2 = 1 \/ b % 2 = 1 THEN 1 ELSE 0) + 2 * BitOr(a \div 2, b \div 2)

\* ToInt32 of a small number (-65536 < n < 65536)
ToW32(n) == IF n >= 0 THEN <<0, n>> ELSE <<65535, 65536 + n>>

\* w << k, for 0 <= k <= 8
W32Shl(w, k) ==
    <<(w[1] * (2 ^ k) + (w[2] * (2 ^ k)) \div 65536) % 65536, (w[2] * (2 ^ k)) % 65536>>

\* w | n
W32Or(w, n) == <<BitOr(w[1], ToW32(n)[1]), BitOr(w[2], ToW32(n)[2])>>

\* (w >>> k) & mask, for 0 <= k <= 8 and mask = 2^m - 1 < 65536
W32ShrMask(w, k, mask) ==
    ((w[2] \div (2 ^ k)) + (w[1] % (2 ^ k)) * (2 ^ (16 - k))) % (mask + 1)

(***************************************************************************)
(* base32rfcEncode: the loop carries <<result, bits, value>>               *)
(***************************************************************************)
\* while (bits >= 5) { index = (value >>> (bits - 5)) & 31; result += ...; bits -= 5 }
RECURSIVE Base32EmitSymbols(_, _, _)
Base32EmitSymbols(result, bits, value) ==
    IF bits >= 5
    THEN Base32EmitSymbols(
             Append(result, BASE32_ALPHABET[W32ShrMask(value, bits - 5, 31) + 1]),
             bits - 5, value)
    ELSE <<result, bits, value>>

\* value = (value << 8) | data[i]; bits += 8; then the while loop
Base32EncodeBody(acc, byte) ==
    Base32EmitSymbols(acc[1], acc[2] + 8, W32Or(W32Shl(acc[3], 8), byte))

\* a variant that forgets the symbol of the last, partial group
Base32EmitLast_Dropped(result, bits, value) == result

\* a variant that pads the last group on the wrong side: value & 31
Base32EmitLast_NoShift(result, bits, value) ==
    IF bits > 0
    THEN Append(result, BASE32_ALPHABET[W32ShrMask(value, 0, 31) + 1])
    ELSE result

\* the closing  if (bits > 0) { index = (value << (5 - bits)) & 31; result += ... }
Base32EmitLast(result, bits, value) ==
    IF bits > 0
    THEN Append(result, BASE32_ALPHABET[W32ShrMask(W32Shl(value, 5 - bits), 0, 31) + 1])
    ELSE result

base32rfcEncode(data) ==
    LET r == ForEach("Base32EncodeBody", <<<<>>, 0, <<0, 0>>>>, data)
    IN  Base32EmitLast(r[1], r[2], r[3])

(***************************************************************************)
(* base32rfcDecode: the loop carries <<result[0 .. index-1], bits, value>>.*)
(* indexOf gives -1 for a character outside the alphabet, and -1 is OR-ed  *)
(* into value like any other index; nothing throws.                        *)
(***************************************************************************)
\* value = (value << 5) | charIndex
Base32TakeSymbol(value, c) == W32Or(W32Shl(value, 5), IndexOf(BASE32_ALPHABET, c))

\* bits += 5; if (bits >= 8) { result[index++] = (value >>> (bits - 8)) & 255; bits -= 8 }
Base32DecodeBody(acc, c) ==
    IF acc[2] + 5 >= 8
    THEN <<Append(acc[1], W32ShrMask(Base32TakeSymbol(acc[3], c), acc[2] + 5 - 8, 255)),
           acc[2] + 5 - 8,
           Base32TakeSymbol(acc[3], c)>>
    ELSE <<acc[1], acc[2] + 5, Base32TakeSymbol(acc[3], c)>>

base32rfcDecode(encoded) ==
    Bytes(ForEach("Base32DecodeBody", <<<<>>, 0, <<0, 0>>>>, encoded)[1])

(***************************************************************************)
(* The loops of the base codecs, by the name of their body                 *)
(***************************************************************************)
LoopBody(loop, acc, x) ==
    CASE loop = "Base58CarryBody" -> Base58CarryBody(acc, x)
      [] loop = "Base58EncodeBody" -> Base58EncodeBody(acc, x)
      [] loop = "Base58MulBody" -> Base58MulBody(acc, x)
      [] loop = "Base58DecodeBody" -> Base58DecodeBody(acc, x)
      [] loop = "Base32EncodeBody" -> Base32EncodeBody(acc, x)
      [] loop = "Base32DecodeBody" -> Base32DecodeBody(acc, x)

FoldLeft(loop, acc, s, lo, hi) ==
    IF lo > hi THEN acc
    ELSE IF lo = hi THEN LoopBody(loop, acc, s[lo])
    ELSE LET firstHalf == FoldLeft(loop, acc, s, lo, (lo + hi) \div 2)
         IN  IF firstHalf = firstHalf
             THEN FoldLeft(loop, firstHalf, s, (lo + hi) \div 2 + 1, hi)
             ELSE acc

(***************************************************************************)
(* base64urlEncode / base64urlDecode, over the platform's btoa and atob    *)
(* (base64 with '=' padding; atob is the forgiving base64 decode).         *)
(***************************************************************************)
B64(i) == BASE64_ALPHABET[i + 1]

\* String.prototype.replace(/c/g, '')
RemoveChar(s, c) == SelectSeq(s, LAMBDA x : x # c)

\* String.prototype.replace(/a/g, 'b')
ReplaceChar(s, a, b) == [i \in 1..Len(s) |-> IF s[i] = a THEN b ELSE s[i]]

\* c.repeat(n)
Repeat(c, n) == [i \in 1..n |-> c]

RECURSIVE Btoa(_)
Btoa(bytes) ==
    IF Len(bytes) = 0 THEN <<>>
    ELSE IF Len(bytes) = 1
    THEN <<B64(bytes[1] \div 4), B64((bytes[1] % 4) * 16), "=", "=">>
    ELSE IF Len(bytes) = 2
    THEN <<B64(bytes[1] \div 4),
           B64((bytes[1] % 4) * 16 + bytes[2] \div 16),
           B64((bytes[2] % 16) * 4), "=">>
    ELSE <<B64(bytes[1] \div 4),
           B64((bytes[1] % 4) * 16 + bytes[2] \div 16),
           B64((bytes[2] % 16) * 4 + bytes[3] \div 64),
           B64(bytes[3] % 64)>> \o Btoa(SubSeq(bytes, 4, Len(bytes)))

base64urlEncode(input) ==
    ReplaceChar(ReplaceChar(RemoveChar(Btoa(input), "="), "+", "-"), "/", "_")

AsciiWhitespace == {" ", "\t", "\n", "\f", "\r"}

\* atob, step 2: a length that is a multiple of 4 loses one or two trailing '='
AtobStripPadding(s) ==
    IF Len(s) % 4 = 0 /\ Len(s) > 0 /\ s[Len(s)] = "="
    THEN IF s[Len(s) - 1] = "="
         THEN SubSeq(s, 1, Len(s) - 2)
         ELSE SubSeq(s, 1, Len(s) - 1)
    ELSE s

B64Index(c) == IndexOf(BASE64_ALPHABET, c)

\* atob, the bit unpacking of validated data; the bits left over are dropped
RECURSIVE AtobBytes(_)
AtobBytes(s) ==
    IF Len(s) = 0 THEN <<>>
    ELSE IF Len(s) = 2
    THEN <<B64Index(s[1]) * 4 + B64Index(s[2]) \div 16>>
    ELSE IF Len(s) = 3
    THEN <<B64Index(s[1]) * 4 + B64Index(s[2]) \div 16,
           (B64Index(s[2]) % 16) * 16 + B64Index(s[3]) \div 4>>
    ELSE <<B64Index(s[1]) * 4 + B64Index(s[2]) \div 16,
           (B64Index(s[2]) % 16) * 16 + B64Index(s[3]) \div 4,
           (B64Index(s[3]) % 4) * 64 + B64Index(s[4])>>
         \o AtobBytes(SubSeq(s, 5, Len(s)))

Atob(input) ==
    LET data == AtobStripPadding(SelectSeq(input, LAMBDA x : x \notin AsciiWhitespace))
    IN  IF Len(data) % 4 = 1 \/ \E i \in 1..Len(data) : B64Index(data[i]) = -1
        THEN Throw("InvalidCharacterError")
        ELSE Bytes(AtobBytes(data))

\* a variant that leaves the string as long as it was
Base64urlPadded_NoPadding(input) ==
    ReplaceChar(ReplaceChar(input, "-", "+"), "_", "/")

\* the string handed to atob: '-' and '_' put back to '+' and '/', then
\* if (paddingLength > 0) input += '='.repeat(4 - paddingLength)
Base64urlPadded(input) ==
    LET plain == ReplaceChar(ReplaceChar(input, "-", "+"), "_", "/")
        paddingLength == Len(plain) % 4
    IN  IF paddingLength > 0
        THEN plain \o Repeat("=", 4 - paddingLength)
        ELSE plain

base64urlDecode(input) == Atob(Base64urlPadded(input))

(***************************************************************************)
(* Numbers wider than 31 bits: <<hi, lo>> stands for hi * 65536 + lo,      *)
(* with lo in 0..65535 and hi of either sign.                              *)
(***************************************************************************)
Wide(n) == <<n \div 65536, n % 65536>>

WideIsZero(v) == v[1] = 0 /\ v[2] = 0

\* value % 256: the remainder takes the sign of the dividend
JsRem256(v) ==
    IF v[1] >= 0 THEN v[2] % 256 ELSE 0 - ((256 - (v[2] % 256)) % 256)

\* storing a number into a Uint8ClampedArray element: a negative one becomes 0
ToUint8_Clamped(n) == IF n < 0 THEN 0 ELSE IF n > 255 THEN 255 ELSE n

\* storing a number into a Buffer / Uint8Array element keeps it modulo 256
ToUint8(n) == n % 256

\* value >> 8: ToInt32, then the sign-propagating shift
JsShr8(v) == Wide((((v[1] + 32768) % 65536) - 32768) * 256 + (v[2] \div 256))

\* an index of slice: a negative one counts from the end, and all are clamped
SliceIndex(n, length) ==
    IF n < 0 THEN (IF length + n < 0 THEN 0 ELSE length + n)
    ELSE IF n < length THEN n ELSE length

\* Buffer.prototype.slice(start, end) / subarray(start, end)
Slice(buf, start, end) ==
    SubSeq(buf, SliceIndex(start, Len(buf)) + 1, SliceIndex(end, Len(buf)))

(***************************************************************************)
(* numToBuf / numberToBuffer (blake3tools.ts): out holds buffer[0 .. i-1]  *)
(***************************************************************************)
RECURSIVE NumToBufFrom(_, _, _, _)
NumToBufFrom(value, i, bufferSize, out) ==
    IF i > bufferSize - 1 THEN out
    ELSE IF WideIsZero(value) THEN out
    ELSE NumToBufFrom(JsShr8(value), i + 1, bufferSize,
                      Append(out, ToUint8(JsRem256(value))))

numToBuf(value, bufferSize) == NumToBufFrom(value, 0, bufferSize, <<>>)

numberToBuffer(value, bufferSize) == NumToBufFrom(value, 0, bufferSize, <<>>)

\* the byte of a buffer at a 0-based index, 0 past its end
ByteAt(bytes, i) == IF i < Len(bytes) THEN bytes[i + 1] ELSE 0

\* Buffer.prototype.readIntLE(offset, byteLength), byteLength in 1..4:
\* a RangeError when the buffer ends before offset + byteLength, else the
\* two's-complement value of the bytes, least significant first
ReadIntLE(bytes, offset, byteLength) ==
    IF offset + byteLength > Len(bytes)
    THEN Throw("RangeError")
    ELSE LET b == [k \in 0..3 |->
                     IF k < byteLength THEN ByteAt(bytes, offset + k) ELSE 0]
             lo == b[0] + 256 * b[1]
             hi == b[2] + 256 * b[3]
             negative == b[byteLength - 1] >= 128
         IN  Num(IF ~negative THEN <<hi, lo>>
                 ELSE IF byteLength = 4 THEN <<hi - 65536, lo>>
                 ELSE IF byteLength = 3 THEN <<hi - 256, lo>>
                 ELSE IF byteLength = 2 THEN <<-1, lo>>
                 ELSE <<-1, 65536 + lo - 256>>)

bufToNum(bytes, bufferSize) == ReadIntLE(bytes, 0, bufferSize)

(***************************************************************************)
(* numToBuf / bufToNum (tools.ts), written with BigInt: value is never     *)
(* negative, value & 0xffn is its low byte, value >> 8n drops that byte.   *)
(* buffer holds buffer[0 .. i-1]; the slice returned ends at lastIndex.    *)
(***************************************************************************)
RECURSIVE tools_NumToBufFrom(_, _, _, _)
tools_NumToBufFrom(value, i, lastIndex, buffer) ==
    IF i > lastIndex THEN buffer
    ELSE IF WideIsZero(value) THEN buffer
    ELSE tools_NumToBufFrom(<<value[1] \div 256,
                              ((value[1] % 256) * 256) + (value[2] \div 256)>>,
                            i + 1, lastIndex, Append(buffer, value[2] % 256))

\* the low byte first, every byte kept
numToBuf_FullWidth(value1, bufferSize) ==
    [k \in 1..bufferSize |->
        IF k = 1 THEN value1[2] % 256 ELSE IF k = 2 THEN value1[2] \div 256
        ELSE IF k = 3 THEN value1[1] % 256 ELSE IF k = 4 THEN value1[1] \div 256
        ELSE 0]

tools_numToBuf(value1, bufferSize) ==
    tools_NumToBufFrom(value1, 0, bufferSize - 1, <<>>)

\* the loop of bufToNum from index i down to 0: value = (value << 8n) + buffer[i]
RECURSIVE tools_BufToNumFrom(_, _, _)
tools_BufToNumFrom(buffer, i, value) ==
    IF i < 0 THEN value
    ELSE LET low == (value[2] * 256) + buffer[i + 1]
         IN  tools_BufToNumFrom(buffer, i - 1,
                                <<(value[1] * 256) + (low \div 65536), low % 65536>>)

tools_bufToNum(buffer) == Num(tools_BufToNumFrom(buffer, Len(buffer) - 1, <<0, 0>>))

(***************************************************************************)
(* Multihash and CID layout (blake3tools.ts)                               *)
(***************************************************************************)
mhashBlake3Default == 31

cidTypeRaw == 95

\* generateMHashFromB3hash with the hash id put after the digest
generateMHashFromB3hash_IdLast(b3hash) == b3hash \o <<mhashBlake3Default>>

generateMHashFromB3hash(b3hash) == <<mhashBlake3Default>> \o b3hash

extractB3hashFromMHash(mHash) == Slice(mHash, 1, Len(mHash))

generateCIDFromMHash(mHash, size) == <<cidTypeRaw>> \o mHash \o numToBuf(size, 4)

getS5CidFromMHash(mHash, size) == <<cidTypeRaw>> \o mHash \o numberToBuffer(size, 4)

\* let hashSize = cid.length - 1; let i = 0;
\* while (hashSize !== 33) { i++; hashSize = cid.length - i }
\* hashSize only falls as i grows: once cid.length - i is below 33 no later
\* iteration makes it 33 and the loop never ends, which -1 stands for
RECURSIVE HashSizeSearch(_, _, _)
HashSizeSearch(length, i, hashSize) ==
    IF hashSize = 33 THEN hashSize
    ELSE IF length - (i + 1) < 33 THEN -1
    ELSE HashSizeSearch(length, i + 1, length - (i + 1))

NeverReturns == [kind |-> "diverges", val |-> "while (hashSize !== 33)"]

\* a variant that takes the size field to be 4 bytes long
extractMHashFromCID_FixedTail(cid) == Bytes(Slice(cid, 1, Len(cid) - 4))

extractMHashFromCID(cid) ==
    IF HashSizeSearch(Len(cid), 0, Len(cid) - 1) = -1
    THEN NeverReturns
    ELSE Bytes(Slice(cid, 1, 1 + HashSizeSearch(Len(cid), 0, Len(cid) - 1)))

extractRawSizeFromCID(cid) == bufToNum(Slice(cid, 34, Len(cid)), 4)

(***************************************************************************)
(* String helpers of the CID codecs                                        *)
(***************************************************************************)
\* cid[0]: undefined on the empty string
FirstChar(s) == IF Len(s) > 0 THEN s[1] ELSE "undefined"

LowerOf(c) ==
    IF IndexOf(UpperLetters, c) = -1 THEN c ELSE LowerLetters[IndexOf(UpperLetters, c) + 1]

UpperOf(c) ==
    IF IndexOf(LowerLetters, c) = -1 THEN c ELSE UpperLetters[IndexOf(LowerLetters, c) + 1]

ToLowerCase(s) == [i \in 1..Len(s) |-> LowerOf(s[i])]

ToUpperCase(s) == [i \in 1..Len(s) |-> UpperOf(s[i])]

\* /[A-Z]/.test(s)
HasUpper(s) == \E i \in 1..Len(s) : IndexOf(UpperLetters, s[i]) # -1

\* /[a-z]/.test(s)
HasLower(s) == \E i \in 1..Len(s) : IndexOf(LowerLetters, s[i]) # -1

\* s.replace(/=+$/, '')
RECURSIVE StripTrailingEq(_)
StripTrailingEq(s) ==
    IF Len(s) > 0 /\ s[Len(s)] = "="
    THEN StripTrailingEq(SubSeq(s, 1, Len(s) - 1))
    ELSE s

(***************************************************************************)
(* tools.ts: prefix encoders and decoders.  encodeBase58BTC ...            *)
(* decodeBase64URL are the base codecs above under their later names.      *)
(***************************************************************************)
\* both branches of  if (bytes.length === 38)  build the same string
encodeCIDWithPrefixZ(bytes) ==
    IF Len(bytes) = 38
    THEN <<"z">> \o base58BitcoinEncode(bytes)
    ELSE <<"z">> \o base58BitcoinEncode(bytes)

decodeCIDWithPrefixZ(cid) ==
    IF FirstChar(cid) = "z"
    THEN base58BitcoinDecode(Substring1(cid))
    ELSE base58BitcoinDecode(cid)

encodeCIDWithPrefixU(bytes) ==
    IF Len(bytes) = 38
    THEN <<"u">> \o base64urlEncode(bytes)
    ELSE <<"u">> \o base64urlEncode(bytes)

decodeCIDWithPrefixU(cid) ==
    IF FirstChar(cid) = "u"
    THEN base64urlDecode(Substring1(cid))
    ELSE base64urlDecode(cid)

encodeCIDWithPrefixB(bytes) ==
    IF Len(bytes) = 38
    THEN <<"b">> \o ToLowerCase(base32rfcEncode(bytes))
    ELSE <<"b">> \o ToLowerCase(base32rfcEncode(bytes))

\* the three ifs run one after the other, each on the cid the last one left
\* cid as decodeCIDWithPrefixB hands it to decodeBase32RFC
CidForDecodeB(cid) ==
    LET cid1 == IF FirstChar(cid) = "B" /\ HasUpper(cid)
                THEN Substring1(ToLowerCase(cid)) ELSE cid
        cid2 == IF FirstChar(cid1) = "b" /\ HasLower(cid1)
                THEN Substring1(cid1) ELSE cid1
    IN  IF HasLower(cid2) THEN ToUpperCase(cid2) ELSE cid2

decodeCIDWithPrefixB(cid) == base32rfcDecode(CidForDecodeB(cid))

(***************************************************************************)
(* The earlier prefix codecs getS5..., with their length thresholds        *)
(***************************************************************************)
getS5zCidEncoded(bytes) ==
    IF Len(bytes) = 38 THEN <<"z">> \o base58BitcoinEncode(bytes) ELSE <<>>

\* a variant whose prefixed threshold is off by one (> 53 for >= 53)
getS5zBytesDecoded_Above53(cid) ==
    IF FirstChar(cid) = "z" /\ Len(cid) > 53
    THEN base58BitcoinDecode(Substring1(cid))
    ELSE IF FirstChar(cid) # "z" /\ Len(cid) <= 52
    THEN base58BitcoinDecode(cid)
    ELSE Undefined

getS5zBytesDecoded(cid) ==
    IF FirstChar(cid) = "z" /\ Len(cid) >= 53
    THEN base58BitcoinDecode(Substring1(cid))
    ELSE IF FirstChar(cid) # "z" /\ Len(cid) <= 52
    THEN base58BitcoinDecode(cid)
    ELSE Undefined

getS5uCidEncoded(bytes) ==
    IF Len(bytes) = 38 THEN <<"u">> \o base64urlEncode(bytes) ELSE <<>>

\* a variant whose bare threshold is off by one (<= 50 for <= 51)
getS5uBytesDecoded_Below51(cid) ==
    IF FirstChar(cid) = "u" /\ Len(cid) >= 52
    THEN base64urlDecode(Substring1(cid))
    ELSE IF FirstChar(cid) # "u" /\ Len(cid) <= 50
    THEN base64urlDecode(cid)
    ELSE Bytes(<<>>)

getS5uBytesDecoded(cid) ==
    IF FirstChar(cid) = "u" /\ Len(cid) >= 52
    THEN base64urlDecode(Substring1(cid))
    ELSE IF FirstChar(cid) # "u" /\ Len(cid) <= 51
    THEN base64urlDecode(cid)
    ELSE Bytes(<<>>)

getS5bCidEncoded(bytes) ==
    IF Len(bytes) = 38 THEN <<"b">> \o ToLowerCase(base32rfcEncode(bytes)) ELSE <<>>

\* cid as getS5bBytesDecoded hands it to base32rfcDecode
CidForGetS5b(cid) ==
    LET cid1 == IF FirstChar(cid) = "B" /\ Len(cid) >= 62 /\ HasUpper(cid)
                THEN Substring1(ToLowerCase(cid)) ELSE cid
        cid2 == IF FirstChar(cid1) = "b" /\ Len(cid1) >= 62
                THEN Substring1(cid1) ELSE cid1
    IN  IF HasLower(cid2) /\ Len(cid2) <= 61
        THEN ToUpperCase(cid2) ELSE cid2

getS5bBytesDecoded(cid) == base32rfcDecode(CidForGetS5b(cid))

(***************************************************************************)
(* Direct converters between the three prefixed forms                      *)
(***************************************************************************)
Base32Body(decoded) == ToLowerCase(StripTrailingEq(base32rfcEncode(decoded)))

convertB58btcToB32rfcCid(cid) ==
    LET decoded == base58BitcoinDecode(Substring1(cid))
    IN  IF decoded.kind = "bytes"
        THEN Str(<<"b">> \o Base32Body(decoded.val))
        ELSE decoded

\* a variant that does not upper-case the body before decoding it
convertB32rfcToB58btcCid_NoUpper(cid) ==
    LET decoded == base32rfcDecode(Substring1(cid))
    IN  IF decoded.kind = "bytes"
        THEN Str(<<"z">> \o base58BitcoinEncode(decoded.val))
        ELSE decoded

convertB32rfcToB58btcCid(cid) ==
    LET decoded == base32rfcDecode(ToUpperCase(Substring1(cid)))
    IN  IF decoded.kind = "bytes"
        THEN Str(<<"z">> \o base58BitcoinEncode(decoded.val))
        ELSE decoded

convertB64urlToB58btcCid(cid) ==
    LET decoded == base64urlDecode(Substring1(cid))
    IN  IF decoded.kind = "bytes"
        THEN Str(<<"z">> \o base58BitcoinEncode(decoded.val))
        ELSE decoded

convertB58btcToB64urlCid(cid) ==
    LET decoded == base58BitcoinDecode(Substring1(cid))
    IN  IF decoded.kind = "bytes"
        THEN Str(<<"u">> \o base64urlEncode(decoded.val))
        ELSE decoded

convertB64urlToB32rfcCid(cid) ==
    LET decoded == base64urlDecode(Substring1(cid))
    IN  IF decoded.kind = "bytes"
        THEN Str(<<"b">> \o Base32Body(decoded.val))
        ELSE decoded

convertB32rfcToB64urlCid(cid) ==
    LET decoded == base32rfcDecode(ToUpperCase(Substring1(cid)))
    IN  IF decoded.kind = "bytes"
        THEN Str(<<"u">> \o base64urlEncode(decoded.val))
        ELSE decoded

convertBase58ToBase32(cid) ==
    LET decoded == base58BitcoinDecode(Substring1(cid))
    IN  IF decoded.kind = "bytes"
        THEN Str(<<"b">> \o Base32Body(decoded.val))
        ELSE decoded

convertBase32ToBase58(cid) ==
    LET decoded == base32rfcDecode(ToUpperCase(Substring1(cid)))
    IN  IF decoded.kind = "bytes"
        THEN Str(<<"z">> \o base58BitcoinEncode(decoded.val))
        ELSE decoded

convertBase64urlToBase58(cid) ==
    LET decoded == base64urlDecode(Substring1(cid))
    IN  IF decoded.kind = "bytes"
        THEN Str(<<"z">> \o base58BitcoinEncode(decoded.val))
        ELSE decoded

convertBase58ToBase64url(cid) ==
    LET decoded == base58BitcoinDecode(Substring1(cid))
    IN  IF decoded.kind = "bytes"
        THEN Str(<<"u">> \o base64urlEncode(decoded.val))
        ELSE decoded

convertBase64urlToBase32(cid) ==
    LET decoded == base64urlDecode(Substring1(cid))
    IN  IF decoded.kind = "bytes"
        THEN Str(<<"b">> \o Base32Body(decoded.val))
        ELSE decoded

convertBase32ToBase64url(cid) ==
    LET decoded == base32rfcDecode(ToUpperCase(Substring1(cid)))
    IN  IF decoded.kind = "bytes"
        THEN Str(<<"u">> \o base64urlEncode(decoded.val))
        ELSE decoded

(***************************************************************************)
(* blake3tools.ts: the extractors that take a CID string, and the two      *)
(* remaining extractors on CID bytes                                       *)
(***************************************************************************)
\* hashSize = cid.length - 5; cid.slice(1, 1 + hashSize)
getS5mHashFromCid(cid) == Bytes(Slice(cid, 1, 1 + (Len(cid) - 5)))

\* the same search for the multihash as extractMHashFromCID, then its digest
extractB3hashFromCID(cid) ==
    IF HashSizeSearch(Len(cid), 0, Len(cid) - 1) = -1
    THEN NeverReturns
    ELSE Bytes(extractB3hashFromMHash(
                   Slice(cid, 1, 1 + HashSizeSearch(Len(cid), 0, Len(cid) - 1))))

\* String.prototype.replace(c, ''): only the first c goes
RemoveFirst(s, c) ==
    IF IndexOf(s, c) = -1 THEN s
    ELSE SubSeq(s, 1, IndexOf(s, c)) \o SubSeq(s, IndexOf(s, c) + 2, Len(s))

\* mHash.toString("base64") is the padded base64 that btoa writes
convertMHashToB64url(mHash) ==
    RemoveFirst(ReplaceChar(ReplaceChar(Btoa(mHash), "+", "-"), "/", "_"), "=")

HexDigits ==
    <<"0", "1", "2", "3", "4", "5", "6", "7", "8", "9", "a", "b", "c", "d", "e", "f">>

\* Buffer.prototype.toString('hex')
ToHex(bytes) ==
    [i \in 1..(2 * Len(bytes)) |->
        IF i % 2 = 1
        THEN HexDigits[(bytes[(i + 1) \div 2] \div 16) + 1]
        ELSE HexDigits[(bytes[i \div 2] % 16) + 1]]

\* a variant that takes a string without a prefix for a bare base58 string
DecodeByPrefix_BareAsZ(cid) ==
    IF FirstChar(cid) = "u" THEN decodeCIDWithPrefixU(cid)
    ELSE IF FirstChar(cid) = "b" THEN decodeCIDWithPrefixB(cid)
    ELSE decodeCIDWithPrefixZ(cid)

\* the bytes of a CID string by its first character; no other is accepted
DecodeByPrefix(cid) ==
    IF FirstChar(cid) = "z" THEN decodeCIDWithPrefixZ(cid)
    ELSE IF FirstChar(cid) = "u" THEN decodeCIDWithPrefixU(cid)
    ELSE IF FirstChar(cid) = "b" THEN decodeCIDWithPrefixB(cid)
    ELSE Throw("Invalid CID input address")

convertS5CidToMHash(cid) ==
    IF DecodeByPrefix(cid).kind = "bytes"
    THEN extractMHashFromCID(DecodeByPrefix(cid).val)
    ELSE DecodeByPrefix(cid)

convertS5CidToMHashB64url(cid) ==
    IF convertS5CidToMHash(cid).kind = "bytes"
    THEN Str(convertMHashToB64url(convertS5CidToMHash(cid).val))
    ELSE convertS5CidToMHash(cid)

convertS5CidToB3hashHex(cid) ==
    IF DecodeByPrefix(cid).kind # "bytes" THEN DecodeByPrefix(cid)
    ELSE IF extractB3hashFromCID(DecodeByPrefix(cid).val).kind # "bytes"
    THEN extractB3hashFromCID(DecodeByPrefix(cid).val)
    ELSE Str(ToHex(extractB3hashFromCID(DecodeByPrefix(cid).val).val))

\* the object getAllInfosFromCid returns
Infos(z, u, b, m, h, size) ==
    [kind |-> "infos",
     val |-> [zcid |-> z, ucid |-> u, bcid |-> b, mhashb64url |-> m,
              b3hashhex |-> h, b3filesize |-> size]]

\* the statements of the branch taken run in their order, and the first one
\* that throws or does not return ends the call
getAllInfosFromCid(cid) ==
    LET cidBytes == DecodeByPrefix(cid)
        mHashBase64url == convertS5CidToMHashB64url(cid)
        b3hashHex == convertS5CidToB3hashHex(cid)
        b3FilesSize == extractRawSizeFromCID(cidBytes.val)
    IN  IF cidBytes.kind # "bytes" THEN cidBytes
        ELSE IF mHashBase64url.kind # "str" THEN mHashBase64url
        ELSE IF b3hashHex.kind # "str" THEN b3hashHex
        ELSE IF b3FilesSize.kind # "num" THEN b3FilesSize
        ELSE Infos(encodeCIDWithPrefixZ(cidBytes.val), encodeCIDWithPrefixU(cidBytes.val),
                   encodeCIDWithPrefixB(cidBytes.val), mHashBase64url.val,
                   b3hashHex.val, b3FilesSize.val)

(***************************************************************************)
(* The caller: its inputs                                                  *)
(***************************************************************************)
MaxLen == 3

MaxStrLen == 3

SeqsUpTo(S, n) == UNION {[1..k -> S] : k \in 0..n}

ByteVals == {0, 1, 58, 128, 255}

ByteSeqs == SeqsUpTo(ByteVals, MaxLen)

Base58Chars == {"1", "2", "z", "0", "O", "l"}

Base58Strings == SeqsUpTo(Base58Chars, MaxStrLen)

Base32Chars == {"A", "M", "7", "a", "1", "="}

Base32Strings == SeqsUpTo(Base32Chars, MaxStrLen)

Base64Chars == {"A", "g", "-", "_", "=", "*"}

Base64Strings == SeqsUpTo(Base64Chars, MaxStrLen)

\* short strings for the CID decoders and converters, with and without a prefix
ShortCidStrings == SeqsUpTo({"z", "u", "b", "B", "2", "A"}, 2)

\* file sizes below 2^32: 0, 1, 255, 256, 1024, 2^16 - 1, 2^16, 2^24 - 1, 2^24,
\* 2^24 + 1, 2^31 - 1, 2^31, 0xABCDEF01, 2^32 - 1
Sizes ==
    {<<0, 0>>, <<0, 1>>, <<0, 255>>, <<0, 256>>, <<0, 1024>>, <<0, 65535>>, <<1, 0>>,
     <<255, 65535>>, <<256, 0>>, <<256, 1>>, <<32767, 65535>>, <<32768, 0>>,
     <<43981, 61185>>, <<65535, 65535>>}

\* 32-byte digests: all zero, all 0xff, and two ramps
Digests == {[i \in 1..32 |-> (a + i * k) % 256] : a \in {0, 255}, k \in {0, 7}}

\* 33-byte multihashes
MHashes == {<<mhashBlake3Default>> \o d : d \in Digests}

\* 4-byte size fields of CIDs: 0, 1024, 0x80000001, 2^32 - 1
SizeFields == {<<0, 0, 0, 0>>, <<0, 4, 0, 0>>, <<1, 0, 0, 128>>, <<255, 255, 255, 255>>}

\* well-formed 38-byte CIDs: the type byte, a multihash, a 4-byte size
Cid38s == {<<cidTypeRaw>> \o m \o f : m \in MHashes, f \in SizeFields}

IsCid38(bytes) == Len(bytes) = 38 /\ bytes[1] = cidTypeRaw

\* 38-byte CIDs of a type whose base32 body begins with the symbol 'b'
\* (the 5 leading bits of the type byte are 00001)
Cid38sWithBodyB == {<<8>> \o m \o <<0, 4, 0, 0>> : m \in MHashes}

\* 38-byte CIDs of types whose base58 body (51 symbols) begins with 'z' and
\* whose base64url body begins with 'u' (the 6 leading bits are 101110)
Cid38sWithBodyZU ==
    {<<6, 180>> \o d \o <<0, 4, 0, 0>> : d \in Digests}
        \cup {<<184>> \o m \o <<0, 4, 0, 0>> : m \in MHashes}

\* the base32 form of a CID, upper-cased by the caller: 'B' and 61 symbols
UpperCasedBCids ==
    {ToUpperCase(encodeCIDWithPrefixB(c)) : c \in Cid38s \cup Cid38sWithBodyB}

\* longer buffers for the base codecs: 5, 6 and 7 bytes
LongerBuffers ==
    {<<255, 255, 255, 255, 255>>, <<1, 58, 128, 255, 0>>, <<128, 0, 255, 1, 58, 7>>,
     <<58, 0, 0, 255, 128, 1, 255>>}

\* buffers that are not 38 bytes long
OtherBuffers ==
    {<<>>, <<cidTypeRaw>>, <<cidTypeRaw>> \o [i \in 1..36 |-> 1],
     <<cidTypeRaw>> \o [i \in 1..38 |-> 1]}

(***************************************************************************)
(* The caller: its calls                                                   *)
(***************************************************************************)
NoSrc == [fn |-> "none", arg |-> <<>>]

Init ==
    /\ fn = "none"
    /\ arg = <<>>
    /\ ret = Undefined
    /\ src = NoSrc
    /\ pc = "idle"
    /\ position = 0
    /\ chunk = <<0, 0>>
    /\ hasher = <<>>

\* the record of a call: function, argument, return value, origin of the argument
Returns(f, a, r, s) ==
    /\ fn' = f
    /\ arg' = a
    /\ ret' = r
    /\ src' = s
    /\ UNCHANGED <<pc, position, chunk, hasher>>

\* the call being made first, on an input of the caller's own
First == fn = "none"

\* the call being made second, on the value of the given kind the first returned
Second(kind) == fn # "none" /\ src = NoSrc /\ ret.kind = kind

\* the first call, as the origin of the second call's argument
Prev == [fn |-> fn, arg |-> arg]

Call_base58BitcoinEncode ==
    \E b \in ByteSeqs \cup LongerBuffers \cup Cid38s :
        /\ First
        /\ Returns("base58BitcoinEncode", b, Str(base58BitcoinEncode(b)), NoSrc)

Call_base58BitcoinDecode ==
    \/ \E s \in Base58Strings :
           /\ First
           /\ Returns("base58BitcoinDecode", s, base58BitcoinDecode(s), NoSrc)
    \/ /\ Second("str")
       /\ Returns("base58BitcoinDecode", ret.val, base58BitcoinDecode(ret.val), Prev)

Call_base32rfcEncode ==
    \E b \in ByteSeqs \cup LongerBuffers \cup Cid38s :
        /\ First
        /\ Returns("base32rfcEncode", b, Str(base32rfcEncode(b)), NoSrc)

Call_base32rfcDecode ==
    \/ \E s \in Base32Strings :
           /\ First
           /\ Returns("base32rfcDecode", s, base32rfcDecode(s), NoSrc)
    \/ /\ Second("str")
       /\ Returns("base32rfcDecode", ret.val, base32rfcDecode(ret.val), Prev)

Call_base64urlEncode ==
    \E b \in ByteSeqs \cup LongerBuffers \cup Cid38s :
        /\ First
        /\ Returns("base64urlEncode", b, Str(base64urlEncode(b)), NoSrc)

Call_base64urlDecode ==
    \/ \E s \in Base64Strings :
           /\ First
           /\ Returns("base64urlDecode", s, base64urlDecode(s), NoSrc)
    \/ /\ Second("str")
       /\ Returns("base64urlDecode", ret.val, base64urlDecode(ret.val), Prev)

Call_numToBuf ==
    \E v \in Sizes :
        /\ First
        /\ Returns("numToBuf", [value |-> v, bufferSize |-> 4],
                   Bytes(numToBuf(v, 4)), NoSrc)

Call_bufToNum ==
    \/ \E b \in ByteSeqs \cup SizeFields :
           /\ First
           /\ Returns("bufToNum", [bytes |-> b, bufferSize |-> 4],
                      bufToNum(b, 4), NoSrc)
    \/ /\ Second("bytes")
       /\ Returns("bufToNum", [bytes |-> ret.val, bufferSize |-> 4],
                  bufToNum(ret.val, 4), Prev)

Call_tools_numToBuf ==
    \E v \in Sizes :
        /\ First
        /\ Returns("tools_numToBuf", [value |-> v, bufferSize |-> 4],
                   Bytes(tools_numToBuf(v, 4)), NoSrc)

\* tools.ts' bufToNum takes the buffer alone; buffers of up to 4 bytes
Call_tools_bufToNum ==
    \/ \E b \in ByteSeqs \cup SizeFields :
           /\ First
           /\ Returns("tools_bufToNum", b, tools_bufToNum(b), NoSrc)
    \/ /\ Second("bytes")
       /\ Len(ret.val) <= 4
       /\ Returns("tools_bufToNum", ret.val, tools_bufToNum(ret.val), Prev)

Call_generateMHashFromB3hash ==
    \E d \in Digests :
        /\ First
        /\ Returns("generateMHashFromB3hash", d,
                   Bytes(generateMHashFromB3hash(d)), NoSrc)

Call_extractB3hashFromMHash ==
    \/ \E m \in MHashes \cup ByteSeqs :
           /\ First
           /\ Returns("extractB3hashFromMHash", m,
                      Bytes(extractB3hashFromMHash(m)), NoSrc)
    \/ /\ Second("bytes")
       /\ Returns("extractB3hashFromMHash", ret.val,
                  Bytes(extractB3hashFromMHash(ret.val)), Prev)

Call_generateCIDFromMHash ==
    \E m \in MHashes, v \in Sizes :
        /\ First
        /\ Returns("generateCIDFromMHash", [mHash |-> m, size |-> v],
                   Bytes(generateCIDFromMHash(m, v)), NoSrc)

Call_getS5CidFromMHash ==
    \E m \in MHashes, v \in Sizes :
        /\ First
        /\ Returns("getS5CidFromMHash", [mHash |-> m, size |-> v],
                   Bytes(getS5CidFromMHash(m, v)), NoSrc)

Call_extractMHashFromCID ==
    \/ \E s \in Cid38s :
           /\ First
           /\ Returns("extractMHashFromCID", s, extractMHashFromCID(s), NoSrc)
    \/ /\ Second("bytes")
       /\ Returns("extractMHashFromCID", ret.val, extractMHashFromCID(ret.val), Prev)

Call_extractRawSizeFromCID ==
    \/ \E s \in Cid38s :
           /\ First
           /\ Returns("extractRawSizeFromCID", s, extractRawSizeFromCID(s), NoSrc)
    \/ /\ Second("bytes")
       /\ Returns("extractRawSizeFromCID", ret.val, extractRawSizeFromCID(ret.val), Prev)

Call_encodeCIDWithPrefixZ ==
    \E b \in Cid38s \cup Cid38sWithBodyZU \cup OtherBuffers :
        /\ First
        /\ Returns("encodeCIDWithPrefixZ", b, Str(encodeCIDWithPrefixZ(b)), NoSrc)

Call_decodeCIDWithPrefixZ ==
    \/ \E s \in ShortCidStrings :
           /\ First
           /\ Returns("decodeCIDWithPrefixZ", s, decodeCIDWithPrefixZ(s), NoSrc)
    \/ /\ Second("str")
       /\ Returns("decodeCIDWithPrefixZ", ret.val, decodeCIDWithPrefixZ(ret.val), Prev)
    \* the caller takes the prefix letter off an encoded CID: the bare form
    \/ /\ Second("str")
       /\ fn \in {"encodeCIDWithPrefixZ", "getS5zCidEncoded"}
       /\ Len(ret.val) > 1
       /\ Returns("decodeCIDWithPrefixZ", Substring1(ret.val),
                  decodeCIDWithPrefixZ(Substring1(ret.val)), Prev)

Call_encodeCIDWithPrefixU ==
    \E b \in Cid38s \cup Cid38sWithBodyZU \cup OtherBuffers :
        /\ First
        /\ Returns("encodeCIDWithPrefixU", b, Str(encodeCIDWithPrefixU(b)), NoSrc)

Call_decodeCIDWithPrefixU ==
    \/ \E s \in ShortCidStrings :
           /\ First
           /\ Returns("decodeCIDWithPrefixU", s, decodeCIDWithPrefixU(s), NoSrc)
    \/ /\ Second("str")
       /\ Returns("decodeCIDWithPrefixU", ret.val, decodeCIDWithPrefixU(ret.val), Prev)
    \* the caller takes the prefix letter off an encoded CID: the bare form
    \/ /\ Second("str")
       /\ fn \in {"encodeCIDWithPrefixU", "getS5uCidEncoded"}
       /\ Len(ret.val) > 1
       /\ Returns("decodeCIDWithPrefixU", Substring1(ret.val),
                  decodeCIDWithPrefixU(Substring1(ret.val)), Prev)

Call_encodeCIDWithPrefixB ==
    \E b \in Cid38s \cup Cid38sWithBodyB \cup OtherBuffers :
        /\ First
        /\ Returns("encodeCIDWithPrefixB", b, Str(encodeCIDWithPrefixB(b)), NoSrc)

Call_decodeCIDWithPrefixB ==
    \/ \E s \in ShortCidStrings \cup UpperCasedBCids :
           /\ First
           /\ Returns("decodeCIDWithPrefixB", s, decodeCIDWithPrefixB(s), NoSrc)
    \/ /\ Second("str")
       /\ Returns("decodeCIDWithPrefixB", ret.val, decodeCIDWithPrefixB(ret.val), Prev)
    \* the caller takes the prefix letter off an encoded CID: the bare form
    \/ /\ Second("str")
       /\ fn \in {"encodeCIDWithPrefixB", "getS5bCidEncoded"}
       /\ Len(ret.val) > 1
       /\ Returns("decodeCIDWithPrefixB", Substring1(ret.val),
                  decodeCIDWithPrefixB(Substring1(ret.val)), Prev)

Call_getS5zCidEncoded ==
    \E b \in Cid38s \cup Cid38sWithBodyZU \cup OtherBuffers :
        /\ First
        /\ Returns("getS5zCidEncoded", b, Str(getS5zCidEncoded(b)), NoSrc)

Call_getS5zBytesDecoded ==
    \/ \E s \in ShortCidStrings :
           /\ First
           /\ Returns("getS5zBytesDecoded", s, getS5zBytesDecoded(s), NoSrc)
    \/ /\ Second("str")
       /\ Returns("getS5zBytesDecoded", ret.val, getS5zBytesDecoded(ret.val), Prev)
    \* the caller takes the prefix letter off an encoded CID: the bare form
    \/ /\ Second("str")
       /\ fn \in {"encodeCIDWithPrefixZ", "getS5zCidEncoded"}
       /\ Len(ret.val) > 1
       /\ Returns("getS5zBytesDecoded", Substring1(ret.val),
                  getS5zBytesDecoded(Substring1(ret.val)), Prev)

Call_getS5uCidEncoded ==
    \E b \in Cid38s \cup Cid38sWithBodyZU \cup OtherBuffers :
        /\ First
        /\ Returns("getS5uCidEncoded", b, Str(getS5uCidEncoded(b)), NoSrc)

Call_getS5uBytesDecoded ==
    \/ \E s \in ShortCidStrings :
           /\ First
           /\ Returns("getS5uBytesDecoded", s, getS5uBytesDecoded(s), NoSrc)
    \/ /\ Second("str")
       /\ Returns("getS5uBytesDecoded", ret.val, getS5uBytesDecoded(ret.val), Prev)
    \* the caller takes the prefix letter off an encoded CID: the bare form
    \/ /\ Second("str")
       /\ fn \in {"encodeCIDWithPrefixU", "getS5uCidEncoded"}
       /\ Len(ret.val) > 1
       /\ Returns("getS5uBytesDecoded", Substring1(ret.val),
                  getS5uBytesDecoded(Substring1(ret.val)), Prev)

Call_getS5bCidEncoded ==
    \E b \in Cid38s \cup Cid38sWithBodyB \cup OtherBuffers :
        /\ First
        /\ Returns("getS5bCidEncoded", b, Str(getS5bCidEncoded(b)), NoSrc)

Call_getS5bBytesDecoded ==
    \/ \E s \in ShortCidStrings \cup UpperCasedBCids :
           /\ First
           /\ Returns("getS5bBytesDecoded", s, getS5bBytesDecoded(s), NoSrc)
    \/ /\ Second("str")
       /\ Returns("getS5bBytesDecoded", ret.val, getS5bBytesDecoded(ret.val), Prev)
    \* the caller takes the prefix letter off an encoded CID: the bare form
    \/ /\ Second("str")
       /\ fn \in {"encodeCIDWithPrefixB", "getS5bCidEncoded"}
       /\ Len(ret.val) > 1
       /\ Returns("getS5bBytesDecoded", Substring1(ret.val),
                  getS5bBytesDecoded(Substring1(ret.val)), Prev)

Call_convertB58btcToB32rfcCid ==
    \/ \E s \in ShortCidStrings :
           /\ First
           /\ Returns("convertB58btcToB32rfcCid", s, convertB58btcToB32rfcCid(s), NoSrc)
    \/ /\ Second("str")
       /\ Returns("convertB58btcToB32rfcCid", ret.val, convertB58btcToB32rfcCid(ret.val), Prev)

Call_convertB32rfcToB58btcCid ==
    \/ \E s \in ShortCidStrings :
           /\ First
           /\ Returns("convertB32rfcToB58btcCid", s, convertB32rfcToB58btcCid(s), NoSrc)
    \/ /\ Second("str")
       /\ Returns("convertB32rfcToB58btcCid", ret.val, convertB32rfcToB58btcCid(ret.val), Prev)

Call_convertB64urlToB58btcCid ==
    \/ \E s \in ShortCidStrings :
           /\ First
           /\ Returns("convertB64urlToB58btcCid", s, convertB64urlToB58btcCid(s), NoSrc)
    \/ /\ Second("str")
       /\ Returns("convertB64urlToB58btcCid", ret.val, convertB64urlToB58btcCid(ret.val), Prev)

Call_convertB58btcToB64urlCid ==
    \/ \E s \in ShortCidStrings :
           /\ First
           /\ Returns("convertB58btcToB64urlCid", s, convertB58btcToB64urlCid(s), NoSrc)
    \/ /\ Second("str")
       /\ Returns("convertB58btcToB64urlCid", ret.val, convertB58btcToB64urlCid(ret.val), Prev)

Call_convertB64urlToB32rfcCid ==
    \/ \E s \in ShortCidStrings :
           /\ First
           /\ Returns("convertB64urlToB32rfcCid", s, convertB64urlToB32rfcCid(s), NoSrc)
    \/ /\ Second("str")
       /\ Returns("convertB64urlToB32rfcCid", ret.val, convertB64urlToB32rfcCid(ret.val), Prev)

Call_convertB32rfcToB64urlCid ==
    \/ \E s \in ShortCidStrings :
           /\ First
           /\ Returns("convertB32rfcToB64urlCid", s, convertB32rfcToB64urlCid(s), NoSrc)
    \/ /\ Second("str")
       /\ Returns("convertB32rfcToB64urlCid", ret.val, convertB32rfcToB64urlCid(ret.val), Prev)

Call_convertBase58ToBase32 ==
    \/ \E s \in ShortCidStrings :
           /\ First
           /\ Returns("convertBase58ToBase32", s, convertBase58ToBase32(s), NoSrc)
    \/ /\ Second("str")
       /\ Returns("convertBase58ToBase32", ret.val, convertBase58ToBase32(ret.val), Prev)

Call_convertBase32ToBase58 ==
    \/ \E s \in ShortCidStrings :
           /\ First
           /\ Returns("convertBase32ToBase58", s, convertBase32ToBase58(s), NoSrc)
    \/ /\ Second("str")
       /\ Returns("convertBase32ToBase58", ret.val, convertBase32ToBase58(ret.val), Prev)

Call_convertBase64urlToBase58 ==
    \/ \E s \in ShortCidStrings :
           /\ First
           /\ Returns("convertBase64urlToBase58", s, convertBase64urlToBase58(s), NoSrc)
    \/ /\ Second("str")
       /\ Returns("convertBase64urlToBase58", ret.val, convertBase64urlToBase58(ret.val), Prev)

Call_convertBase58ToBase64url ==
    \/ \E s \in ShortCidStrings :
           /\ First
           /\ Returns("convertBase58ToBase64url", s, convertBase58ToBase64url(s), NoSrc)
    \/ /\ Second("str")
       /\ Returns("convertBase58ToBase64url", ret.val, convertBase58ToBase64url(ret.val), Prev)

Call_convertBase64urlToBase32 ==
    \/ \E s \in ShortCidStrings :
           /\ First
           /\ Returns("convertBase64urlToBase32", s, convertBase64urlToBase32(s), NoSrc)
    \/ /\ Second("str")
       /\ Returns("convertBase64urlToBase32", ret.val, convertBase64urlToBase32(ret.val), Prev)

Call_convertBase32ToBase64url ==
    \/ \E s \in ShortCidStrings :
           /\ First
           /\ Returns("convertBase32ToBase64url", s, convertBase32ToBase64url(s), NoSrc)
    \/ /\ Second("str")
       /\ Returns("convertBase32ToBase64url", ret.val, convertBase32ToBase64url(ret.val), Prev)

Call_convertS5CidToMHash ==
    \/ \E s \in ShortCidStrings :
           /\ First
           /\ Returns("convertS5CidToMHash", s, convertS5CidToMHash(s), NoSrc)
    \/ /\ Second("str")
       /\ Returns("convertS5CidToMHash", ret.val, convertS5CidToMHash(ret.val), Prev)

Call_convertS5CidToB3hashHex ==
    \/ \E s \in ShortCidStrings :
           /\ First
           /\ Returns("convertS5CidToB3hashHex", s, convertS5CidToB3hashHex(s), NoSrc)
    \/ /\ Second("str")
       /\ Returns("convertS5CidToB3hashHex", ret.val, convertS5CidToB3hashHex(ret.val), Prev)

Call_getAllInfosFromCid ==
    \/ \E s \in ShortCidStrings :
           /\ First
           /\ Returns("getAllInfosFromCid", s, getAllInfosFromCid(s), NoSrc)
    \/ /\ Second("str")
       /\ Returns("getAllInfosFromCid", ret.val, getAllInfosFromCid(ret.val), Prev)

Call_extractB3hashFromCID ==
    \/ \E s \in Cid38s :
           /\ First
           /\ Returns("extractB3hashFromCID", s, extractB3hashFromCID(s), NoSrc)
    \/ /\ Second("bytes")
       /\ Returns("extractB3hashFromCID", ret.val, extractB3hashFromCID(ret.val), Prev)

Call_getS5mHashFromCid ==
    \/ \E s \in Cid38s :
           /\ First
           /\ Returns("getS5mHashFromCid", s, getS5mHashFromCid(s), NoSrc)
    \/ /\ Second("bytes")
       /\ Returns("getS5mHashFromCid", ret.val, getS5mHashFromCid(ret.val), Prev)

(***************************************************************************)
(* calculateB3hashFromFile / getB3hashFromFile (blake3tools.ts): the same  *)
(* asynchronous body.  The code between two awaits runs without            *)
(* interruption, so each action below runs from one await to the next.  A  *)
(* file is known by its size; a chunk is the range <<start, end>> of the   *)
(* file's bytes it holds.                                                  *)
(***************************************************************************)
chunkSize == 1024 * 1024

MaxChunks == 4

\* file sizes: the multiples of chunkSize up to MaxChunks, each also with one
\* byte more and with one byte less than a chunk more
FileSizes == {(k * chunkSize) + d : k \in 0..MaxChunks, d \in {0, 1, chunkSize - 1}}

\* Blob.prototype.slice(start, end) on a file of the given size: both ends are
\* clamped to the size
BlobSlice(size, start, end) ==
    <<IF start < size THEN start ELSE size, IF end < size THEN end ELSE size>>

\* the loop test with < for <=
MoreToHash_Strict(pos, size) == pos < size

\* while (position <= file.size)
MoreToHash(pos, size) == pos <= size

\* the call: the function runs up to  await blake3.load()  and returns a promise
Call_calculateB3hashFromFile ==
    \E f \in {"calculateB3hashFromFile", "getB3hashFromFile"}, size \in FileSizes :
        /\ First
        /\ fn' = f
        /\ arg' = size
        /\ ret' = [kind |-> "promise", val |-> "pending"]
        /\ src' = NoSrc
        /\ pc' = "load"
        /\ UNCHANGED <<position, chunk, hasher>>

\* blake3.load() has settled: the hasher is created, position is 0, the loop is
\* entered and runs up to  await chunk.arrayBuffer(), or is not entered and the
\* digest of nothing is returned
calculateB3hashFromFile_loaded ==
    /\ pc = "load"
    /\ position' = 0
    /\ IF MoreToHash(0, arg)
       THEN /\ chunk' = BlobSlice(arg, 0, 0 + chunkSize)
            /\ hasher' = <<>>
            /\ pc' = "arrayBuffer"
            /\ UNCHANGED ret
       ELSE /\ hasher' = <<[op |-> "digest", data |-> <<>>]>>
            /\ ret' = [kind |-> "digest", val |-> <<>>]
            /\ pc' = "done"
            /\ UNCHANGED chunk
    /\ UNCHANGED <<fn, arg, src>>

\* chunk.arrayBuffer() has settled: the hasher is updated with the chunk read,
\* position moves on, and the loop either runs up to the next await or ends,
\* the digest of what the hasher was given is taken and the promise is
\* resolved with it
calculateB3hashFromFile_read ==
    /\ pc = "arrayBuffer"
    /\ position' = position + chunkSize
    /\ IF MoreToHash(position + chunkSize, arg)
       THEN /\ hasher' = Append(hasher, [op |-> "update", data |-> chunk])
            /\ chunk' = BlobSlice(arg, position + chunkSize,
                                  position + chunkSize + chunkSize)
            /\ UNCHANGED <<pc, ret>>
       ELSE /\ hasher' = Append(Append(hasher, [op |-> "update", data |-> chunk]),
                                [op |-> "digest", data |-> <<>>])
            /\ ret' = [kind |-> "digest",
                       val |-> [i \in 1..(Len(hasher) + 1) |->
                                   Append(hasher, [op |-> "update", data |-> chunk])[i].data]]
            /\ pc' = "done"
            /\ UNCHANGED chunk
    /\ UNCHANGED <<fn, arg, src>>

Next ==
    \/ Call_base58BitcoinEncode
    \/ Call_base58BitcoinDecode
    \/ Call_base32rfcEncode
    \/ Call_base32rfcDecode
    \/ Call_base64urlEncode
    \/ Call_base64urlDecode
    \/ Call_numToBuf
    \/ Call_bufToNum
    \/ Call_generateCIDFromMHash
    \/ Call_getS5CidFromMHash
    \/ Call_extractMHashFromCID
    \/ Call_extractRawSizeFromCID
    \/ Call_encodeCIDWithPrefixZ
    \/ Call_decodeCIDWithPrefixZ
    \/ Call_encodeCIDWithPrefixU
    \/ Call_decodeCIDWithPrefixU
    \/ Call_encodeCIDWithPrefixB
    \/ Call_decodeCIDWithPrefixB
    \/ Call_getS5zCidEncoded
    \/ Call_getS5zBytesDecoded
    \/ Call_getS5uCidEncoded
    \/ Call_getS5uBytesDecoded
    \/ Call_getS5bCidEncoded
    \/ Call_getS5bBytesDecoded
    \/ Call_convertB58btcToB32rfcCid
    \/ Call_convertB32rfcToB58btcCid
    \/ Call_convertB64urlToB58btcCid
    \/ Call_convertB58btcToB64urlCid
    \/ Call_convertB64urlToB32rfcCid
    \/ Call_convertB32rfcToB64urlCid
    \/ Call_convertBase58ToBase32
    \/ Call_convertBase32ToBase58
    \/ Call_convertBase64urlToBase58
    \/ Call_convertBase58ToBase64url
    \/ Call_convertBase64urlToBase32
    \/ Call_convertBase32ToBase64url
    \/ Call_convertS5CidToMHash
    \/ Call_convertS5CidToB3hashHex
    \/ Call_getAllInfosFromCid
    \/ Call_extractB3hashFromCID
    \/ Call_getS5mHashFromCid
    \/ Call_tools_numToBuf
    \/ Call_tools_bufToNum
    \/ Call_generateMHashFromB3hash
    \/ Call_extractB3hashFromMHash
    \/ Call_calculateB3hashFromFile
    \/ calculateB3hashFromFile_loaded
    \/ calculateB3hashFromFile_read

Spec == Init /\ [][Next]_vars

\* the caller hashing files and doing nothing else
HashNext ==
    \/ Call_calculateB3hashFromFile
    \/ calculateB3hashFromFile_loaded
    \/ calculateB3hashFromFile_read

\* a promise that is awaited settles, and the function awaiting it is resumed
HashSpec ==
    /\ Init
    /\ [][HashNext]_vars
    /\ WF_vars(calculateB3hashFromFile_loaded)
    /\ WF_vars(calculateB3hashFromFile_read)

(***************************************************************************)
(* Properties                                                              *)
(***************************************************************************)
IsBytes(r, b) == r.kind = "bytes" /\ r.val = b

IsStr(r, str) == r.kind = "str" /\ r.val = str

IsNum(r, n) == r.kind = "num" /\ r.val = n

InAlphabet(alphabet, c) == \E i \in 1..Len(alphabet) : alphabet[i] = c

EncodersZ == {"encodeCIDWithPrefixZ", "getS5zCidEncoded"}

EncodersU == {"encodeCIDWithPrefixU", "getS5uCidEncoded"}

EncodersB == {"encodeCIDWithPrefixB", "getS5bCidEncoded"}

DecodersZ == {"decodeCIDWithPrefixZ", "getS5zBytesDecoded"}

DecodersU == {"decodeCIDWithPrefixU", "getS5uBytesDecoded"}

DecodersB == {"decodeCIDWithPrefixB", "getS5bBytesDecoded"}

\* the number of zero bytes a buffer begins with
RECURSIVE LeadingZeros(_)
LeadingZeros(bytes) ==
    IF Len(bytes) > 0 /\ bytes[1] = 0
    THEN 1 + LeadingZeros(SubSeq(bytes, 2, Len(bytes)))
    ELSE 0

\* the 4 bytes of a number below 2^32, least significant first
LittleEndian4(v) == <<v[2] % 256, v[2] \div 256, v[1] % 256, v[1] \div 256>>

\* C1: decoding the base58 encoding of a byte sequence gives the byte sequence
\* back, whatever its length and however many zero bytes it begins with.
C1_Base58RoundTrip ==
    (fn = "base58BitcoinDecode" /\ src.fn = "base58BitcoinEncode")
        => IsBytes(ret, src.arg)

\* C2: the CID built from a 33-byte multihash and a file size below 2^32 is 38
\* bytes long and its last 4 bytes are the size, least significant byte first.
C2_FixedWidthSizeField ==
    (fn \in {"generateCIDFromMHash", "getS5CidFromMHash"} /\ Len(arg.mHash) = 33)
        => /\ Len(ret.val) = 38
           /\ SubSeq(ret.val, 35, 38) = LittleEndian4(arg.size)

\* C3: the size extracted from the CID built for a file of size s is s.
C3_DeclaredSizeRoundTrip ==
    (fn = "extractRawSizeFromCID" /\ src.fn = "generateCIDFromMHash")
        => IsNum(ret, src.arg.size)

\* C4: the multihash extracted from the CID built from a 33-byte multihash m
\* and a size below 2^32 is m, and the CID's first byte is the type byte.
C4_MHashRoundTrip ==
    (fn = "extractMHashFromCID" /\ src.fn = "generateCIDFromMHash")
        => /\ IsBytes(ret, src.arg.mHash)
           /\ arg[1] = cidTypeRaw

\* C4 happens: a multihash is extracted from a CID built for size 1024, whose
\* size field is shorter than 4 bytes.
C4_Witness ==
    /\ fn = "extractMHashFromCID"
    /\ src.fn = "generateCIDFromMHash"
    /\ src.arg.size = <<0, 1024>>
    /\ Len(arg) = 36
    /\ IsBytes(ret, src.arg.mHash)

C7_Base58LeadingOnes ==
    fn = "base58BitcoinEncode"
        => IsStr(ret, Repeat("1", LeadingZeros(arg))
                      \o base58BitcoinEncode(
                             SubSeq(arg, LeadingZeros(arg) + 1, Len(arg))))

\* C8: base32rfcDecode fails with an error on every string that has a
\* character outside the alphabet A-Z2-7.
C8_Base32RejectsAlphabet ==
    (/\ fn = "base32rfcDecode"
     /\ \E i \in 1..Len(arg) : ~InAlphabet(BASE32_ALPHABET, arg[i]))
        => ret.kind = "throw"

\* C9: base58BitcoinDecode throws on every string that has a character
\* outside the 58-character alphabet, wherever the character stands, and
\* returns no bytes.
C9_Base58RejectsAlphabet ==
    (/\ fn = "base58BitcoinDecode"
     /\ \E i \in 1..Len(arg) : ~InAlphabet(ALPHABET, arg[i]))
        => ret.kind = "throw"

\* C9 happens: a string whose only bad character is its last one is rejected.
C9_Witness ==
    /\ fn = "base58BitcoinDecode"
    /\ arg = <<"2", "z", "0">>
    /\ ret.kind = "throw"

\* C10: decoding the base32 encoding of a byte sequence gives the byte
\* sequence back: the padding bits of the last symbol make no extra byte.
C10_Base32RoundTrip ==
    (fn = "base32rfcDecode" /\ src.fn = "base32rfcEncode")
        => IsBytes(ret, src.arg)

\* C10 happens: a 3-byte sequence, whose 5 symbols carry one padding bit, is
\* encoded and decoded back.
C10_Witness ==
    /\ fn = "base32rfcDecode"
    /\ src.fn = "base32rfcEncode"
    /\ Len(src.arg) = 3
    /\ Len(arg) = 5
    /\ IsBytes(ret, src.arg)

\* bit k of a byte sequence, counted from the most significant bit of its
\* first byte; 0 past its end
BitOf(data, k) ==
    IF k < 8 * Len(data)
    THEN (data[k \div 8 + 1] \div (2 ^ (7 - (k % 8)))) % 2
    ELSE 0

\* the number made of bits 5i .. 5i+4 of a byte sequence
GroupOf5(data, i) ==
    16 * BitOf(data, 5 * i) + 8 * BitOf(data, 5 * i + 1) + 4 * BitOf(data, 5 * i + 2)
        + 2 * BitOf(data, 5 * i + 3) + BitOf(data, 5 * i + 4)

\* C11: the base32 encoding of n bytes has ceil(8n / 5) symbols; symbol i is
\* the alphabet's symbol for bits 5i .. 5i+4 of the input, most significant
\* bit first, the last group filled up with zero bits; no '=' is written.
C11_Base32EncodeShape ==
    fn = "base32rfcEncode"
        => /\ ret.kind = "str"
           /\ Len(ret.val) = (8 * Len(arg) + 4) \div 5
           /\ \A i \in 1..Len(ret.val) :
                  /\ ret.val[i] = BASE32_ALPHABET[GroupOf5(arg, i - 1) + 1]
                  /\ ret.val[i] # "="

\* C11 happens: 7 bytes, more than the 32 bits of the encoder's accumulator,
\* are encoded to 12 symbols, the last one holding 1 bit of the input.
C11_Witness ==
    /\ fn = "base32rfcEncode"
    /\ Len(arg) = 7
    /\ ret.kind = "str"
    /\ Len(ret.val) = 12

\* C12: the base64url encoding of a byte sequence has no '+', '/' or '=', and
\* decoding it gives the byte sequence back; the decoder hands atob its input
\* with '-' and '_' translated and '=' appended up to a multiple of 4.
C12_Base64urlRoundTrip ==
    /\ fn = "base64urlEncode"
           => /\ ret.kind = "str"
              /\ \A i \in 1..Len(ret.val) : ret.val[i] \notin {"+", "/", "="}
    /\ (fn = "base64urlDecode" /\ src.fn = "base64urlEncode")
           => IsBytes(ret, src.arg)
    /\ fn = "base64urlDecode"
           => /\ Len(Base64urlPadded(arg)) % 4 = 0
              /\ Len(Base64urlPadded(arg)) - Len(arg) \in 0..3
              /\ \A i \in 1..Len(Base64urlPadded(arg)) :
                     Base64urlPadded(arg)[i] =
                         IF i > Len(arg) THEN "="
                         ELSE IF arg[i] = "-" THEN "+"
                         ELSE IF arg[i] = "_" THEN "/"
                         ELSE arg[i]

\* C12 happens: the byte 255 is encoded to the two characters "_w", which
\* the decoder pads by two and decodes back.
C12_Witness ==
    /\ fn = "base64urlDecode"
    /\ src.fn = "base64urlEncode"
    /\ src.arg = <<255>>
    /\ arg = <<"_", "w">>
    /\ IsBytes(ret, src.arg)

\* two results are the same: both threw, or both returned the same value
SameResult(r1, r2) == r1.kind = r2.kind /\ r1.val = r2.val

\* C13: a 'z' string shorter than 53 characters, a 'u' string shorter than
\* 52, and a string without the prefix that is longer than 52 (base58) or 51
\* (base64url) make the prefix decoder fail with an error.
C13_MalformedLengthFails ==
    /\ (/\ fn \in DecodersZ
        /\ \/ FirstChar(arg) = "z" /\ Len(arg) < 53
           \/ FirstChar(arg) # "z" /\ Len(arg) > 52)
           => ret.kind = "throw"
    /\ (/\ fn \in DecodersU
        /\ \/ FirstChar(arg) = "u" /\ Len(arg) < 52
           \/ FirstChar(arg) # "u" /\ Len(arg) > 51)
           => ret.kind = "throw"

\* C14: on a string that starts with 'z' and has 53 characters or more the
\* base58 prefix decoder returns what base58BitcoinDecode returns for the
\* string without its first character, and on a string that does not start
\* with 'z' and has 52 characters or fewer what it returns for the whole
\* string; likewise for 'u', 52, 51 and base64urlDecode.
C14_ThresholdDispatch ==
    /\ (fn \in DecodersZ /\ FirstChar(arg) = "z" /\ Len(arg) >= 53)
           => SameResult(ret, base58BitcoinDecode(Substring1(arg)))
    /\ (fn \in DecodersZ /\ FirstChar(arg) # "z" /\ Len(arg) <= 52)
           => SameResult(ret, base58BitcoinDecode(arg))
    /\ (fn \in DecodersU /\ FirstChar(arg) = "u" /\ Len(arg) >= 52)
           => SameResult(ret, base64urlDecode(Substring1(arg)))
    /\ (fn \in DecodersU /\ FirstChar(arg) # "u" /\ Len(arg) <= 51)
           => SameResult(ret, base64urlDecode(arg))

\* C14 happens: the bare base64url string of a 38-byte CID, 51 characters
\* long, is decoded whole.
C14_Witness ==
    /\ fn = "getS5uBytesDecoded"
    /\ src.fn = "base64urlEncode"
    /\ FirstChar(arg) # "u"
    /\ Len(arg) = 51
    /\ IsBytes(ret, src.arg)

\* C15: whatever string the base32 prefix decoder is given, the string it
\* hands to base32rfcDecode has no lowercase letter.
C15_UppercaseBeforeDecode ==
    /\ fn = "getS5bBytesDecoded" => ~HasLower(CidForGetS5b(arg))
    /\ fn = "decodeCIDWithPrefixB" => ~HasLower(CidForDecodeB(arg))

\* C16: for a 38-byte CID c the base32 prefix decoder returns c for the
\* lowercase string encodeCIDWithPrefixB(c) and for that string upper-cased,
\* also when the first symbol of the body is 'b' / 'B'.
C16_Base32CaseInsensitive ==
    /\ (fn \in DecodersB /\ src.fn = "encodeCIDWithPrefixB" /\ Len(src.arg) = 38)
           => IsBytes(ret, src.arg)
    /\ (fn \in DecodersB /\ src.fn = "none")
           => \A c \in Cid38s \cup Cid38sWithBodyB :
                  arg = ToUpperCase(encodeCIDWithPrefixB(c)) => IsBytes(ret, c)

\* a converter's result r agrees with the composition whose decoder returned
\* d and whose encoder gives e: when either returns a value, both do, the same
Agrees(r, d, e) ==
    (r.kind = "str" \/ d.kind = "bytes")
        => (r.kind = "str" /\ d.kind = "bytes" /\ r.val = e)

\* C17: on every string, each direct converter from X to Y returns what the
\* prefix encoder of Y returns for the bytes the prefix decoder of X returns,
\* whenever either of the two returns a value.
C17_ConverterIsComposition ==
    /\ fn = "convertB58btcToB32rfcCid"
           => Agrees(ret, decodeCIDWithPrefixZ(arg),
                     encodeCIDWithPrefixB(decodeCIDWithPrefixZ(arg).val))
    /\ fn = "convertB58btcToB64urlCid"
           => Agrees(ret, decodeCIDWithPrefixZ(arg),
                     encodeCIDWithPrefixU(decodeCIDWithPrefixZ(arg).val))
    /\ fn = "convertB32rfcToB58btcCid"
           => Agrees(ret, decodeCIDWithPrefixB(arg),
                     encodeCIDWithPrefixZ(decodeCIDWithPrefixB(arg).val))
    /\ fn = "convertB32rfcToB64urlCid"
           => Agrees(ret, decodeCIDWithPrefixB(arg),
                     encodeCIDWithPrefixU(decodeCIDWithPrefixB(arg).val))
    /\ fn = "convertB64urlToB58btcCid"
           => Agrees(ret, decodeCIDWithPrefixU(arg),
                     encodeCIDWithPrefixZ(decodeCIDWithPrefixU(arg).val))
    /\ fn = "convertB64urlToB32rfcCid"
           => Agrees(ret, decodeCIDWithPrefixU(arg),
                     encodeCIDWithPrefixB(decodeCIDWithPrefixU(arg).val))

\* the number in 4 bytes, least significant first, read as unsigned
UnsignedLE4(b) == <<b[4] * 256 + b[3], b[2] * 256 + b[1]>>

\* C18: given any of the three prefixed forms of a 38-byte CID c,
\* getAllInfosFromCid returns zcid = 'z' + base58(c),
\* ucid = 'u' + base64url(c), bcid = 'b' + lowercase base32(c),
\* mhashb64url = the unpadded base64url of bytes 1..33 of c, b3hashhex = the
\* hex of bytes 2..33, and b3filesize = the unsigned little-endian number in
\* bytes 34..37.
C18_AggregateInfos ==
    (/\ fn = "getAllInfosFromCid"
     /\ src.fn \in EncodersZ \cup EncodersU \cup EncodersB
     /\ IsCid38(src.arg))
        => /\ ret.kind = "infos"
           /\ ret.val.zcid = <<"z">> \o base58BitcoinEncode(src.arg)
           /\ ret.val.ucid = <<"u">> \o base64urlEncode(src.arg)
           /\ ret.val.bcid = <<"b">> \o ToLowerCase(base32rfcEncode(src.arg))
           /\ ret.val.mhashb64url = base64urlEncode(SubSeq(src.arg, 2, 34))
           /\ ret.val.b3hashhex = ToHex(SubSeq(src.arg, 3, 34))
           /\ ret.val.b3filesize = UnsignedLE4(SubSeq(src.arg, 35, 38))

\* C19: on every string whose first character is none of 'z', 'u', 'b', the
\* empty string included, getAllInfosFromCid, convertS5CidToMHash and
\* convertS5CidToB3hashHex throw.
C19_DispatchFailure ==
    (/\ fn \in {"getAllInfosFromCid", "convertS5CidToMHash", "convertS5CidToB3hashHex"}
     /\ FirstChar(arg) \notin {"z", "u", "b"})
        => ret.kind = "throw"

\* C19 happens: the bare base58 string of a 38-byte CID, 52 characters with
\* no prefix, is refused by getAllInfosFromCid.
C19_Witness ==
    /\ fn = "getAllInfosFromCid"
    /\ src.fn = "base58BitcoinEncode"
    /\ Len(arg) = 52
    /\ FirstChar(arg) \notin {"z", "u", "b"}
    /\ ret.kind = "throw"

\* C20: on every buffer shorter than 38 bytes extractMHashFromCID,
\* extractB3hashFromCID and extractRawSizeFromCID fail with an error.
C20_ShortBufferRejected ==
    (/\ fn \in {"extractMHashFromCID", "extractB3hashFromCID", "extractRawSizeFromCID"}
     /\ Len(arg) < 38)
        => ret.kind = "throw"

\* the least number of bytes that hold a number below 2^32
MinimalWidth(v) ==
    IF v[1] >= 256 THEN 4 ELSE IF v[1] > 0 THEN 3
    ELSE IF v[2] >= 256 THEN 2 ELSE IF v[2] > 0 THEN 1 ELSE 0

\* C21: numToBuf(v, 4) on an integer v in [0, 2^32) returns the little-endian
\* bytes of v without its most significant zero bytes: as many bytes as the
\* least k with v < 256^k (none for 0), zero bytes below the top kept, and a
\* last byte that is not zero.
C21_MinimalPacking ==
    fn \in {"numToBuf", "tools_numToBuf"}
        => /\ ret.val = SubSeq(LittleEndian4(arg.value), 1, MinimalWidth(arg.value))
           /\ Len(ret.val) > 0 => ret.val[Len(ret.val)] # 0

\* C21 happens: 2^24 is packed, with three zero bytes below its top byte.
C21_Witness ==
    /\ fn = "tools_numToBuf"
    /\ arg.value = <<256, 0>>
    /\ ret.val = <<0, 0, 0, 1>>

\* the number a buffer of up to 4 bytes holds, least significant byte first
UnsignedLE(b) == UnsignedLE4(b \o [k \in 1..(4 - Len(b)) |-> 0])

\* C22: on a byte sequence of 0 to 4 bytes bufToNum returns the sum of
\* byte[i] * 256^i, which is never negative and needs no fixed width; so
\* bufToNum(numToBuf(v, 4)) is v for every v below 2^32, and the empty
\* sequence gives 0 without an error.
C22_TolerantUnpacking ==
    /\ (fn = "bufToNum" /\ Len(arg.bytes) <= 4)
            => IsNum(ret, UnsignedLE(arg.bytes))
    /\ (fn = "tools_bufToNum" /\ Len(arg) <= 4)
            => IsNum(ret, UnsignedLE(arg))
    /\ (fn \in {"bufToNum", "tools_bufToNum"}
        /\ src.fn \in {"numToBuf", "tools_numToBuf"})
            => IsNum(ret, src.arg.value)

\* C23: the multihash built from a 32-byte digest d is 33 bytes long, begins
\* with the hash identifier byte and carries d in bytes 1..32; and the digest
\* extracted from that multihash is d.
C23_MHashBuildSplit ==
    /\ (fn = "generateMHashFromB3hash" /\ Len(arg) = 32)
            => /\ ret.kind = "bytes"
               /\ Len(ret.val) = 33
               /\ ret.val[1] = mhashBlake3Default
               /\ SubSeq(ret.val, 2, 33) = arg
    /\ (fn = "extractB3hashFromMHash" /\ src.fn = "generateMHashFromB3hash"
        /\ Len(src.arg) = 32)
            => IsBytes(ret, src.arg)

\* C23 happens: the digest is taken back out of the multihash built from a
\* digest that is not constant.
C23_Witness ==
    /\ fn = "extractB3hashFromMHash"
    /\ src.fn = "generateMHashFromB3hash"
    /\ src.arg[1] # src.arg[2]
    /\ Len(arg) = 33
    /\ ret.val = src.arg

\* C24: extractB3hashFromMHash on a buffer of length zero fails with an error.
C24_EmptyMHashRejected ==
    (fn = "extractB3hashFromMHash" /\ Len(arg) = 0) => ret.kind = "throw"

\* C25: each prefix encoder returns the prefix letter followed by the encoding
\* of its input when the input is exactly 38 bytes long, and the empty string
\* for an input of any other length.
C25_EncodersRejectWrongLength ==
    /\ fn \in EncodersZ
        => IsStr(ret, IF Len(arg) = 38 THEN <<"z">> \o base58BitcoinEncode(arg)
                      ELSE <<>>)
    /\ fn \in EncodersU
        => IsStr(ret, IF Len(arg) = 38 THEN <<"u">> \o base64urlEncode(arg)
                      ELSE <<>>)
    /\ fn \in EncodersB
        => IsStr(ret, IF Len(arg) = 38
                      THEN <<"b">> \o ToLowerCase(base32rfcEncode(arg))
                      ELSE <<>>)

\* C26: on a buffer of any length, the empty buffer and those shorter than 34
\* bytes included, extractMHashFromCID and extractB3hashFromCID come to an end:
\* the search for hashSize = 33 stops and the call returns or fails.
C26_ExtractionTerminates ==
    fn \in {"extractMHashFromCID", "extractB3hashFromCID"}
        => ret.kind # "diverges"

\* C27: for every 38-byte CID c, the matching prefix decoder returns c when it
\* is given the body of c without the prefix letter (the base58 body, the
\* base64url body, the lower-case base32 body), also when the first character
\* of the body is itself 'z', 'u' or 'b': no character of the body is taken
\* off as if it were the prefix.
C27_BareFormsDecode ==
    /\ (/\ fn \in DecodersZ /\ src.fn \in EncodersZ /\ Len(src.arg) = 38
        /\ arg = base58BitcoinEncode(src.arg))
            => IsBytes(ret, src.arg)
    /\ (/\ fn \in DecodersU /\ src.fn \in EncodersU /\ Len(src.arg) = 38
        /\ arg = base64urlEncode(src.arg))
            => IsBytes(ret, src.arg)
    /\ (/\ fn \in DecodersB /\ src.fn \in EncodersB /\ Len(src.arg) = 38
        /\ arg = ToLowerCase(base32rfcEncode(src.arg)))
            => IsBytes(ret, src.arg)

\* the k-th slice of a file of n bytes, k = 0, 1, 2, ...: the bytes from
\* k * 2^20 up to (k + 1) * 2^20, as far as the file goes
SliceOf(n, k) ==
    <<IF k * 1048576 < n THEN k * 1048576 ELSE n,
      IF (k + 1) * 1048576 < n THEN (k + 1) * 1048576 ELSE n>>

\* the first k updates of the hasher: the slices 0 .. k - 1 in increasing order
UpdatesOf(n, k) == [i \in 1..k |-> [op |-> "update", data |-> SliceOf(n, i - 1)]]

\* the chunks join up: the first begins at byte 0, each begins where the one
\* before ended, and the last ends at byte n
JoinUp(n, chunks) ==
    /\ Len(chunks) > 0
    /\ chunks[1][1] = 0
    /\ \A i \in 2..Len(chunks) : chunks[i][1] = chunks[i - 1][2]
    /\ chunks[Len(chunks)][2] = n

HashingInOrder ==
    fn \in {"calculateB3hashFromFile", "getB3hashFromFile"}
        => /\ pc = "load" => hasher = <<>>
           /\ pc = "arrayBuffer"
                => \E k \in 0..(arg \div 1048576) :
                      /\ hasher = UpdatesOf(arg, k)
                      /\ chunk = SliceOf(arg, k)
           /\ pc = "done"
                => /\ hasher = Append(UpdatesOf(arg, (arg \div 1048576) + 1),
                                      [op |-> "digest", data |-> <<>>])
                   /\ ret.kind = "digest"
                   /\ JoinUp(arg, ret.val)

\* C28: for a file of n bytes calculateB3hashFromFile (getB3hashFromFile) gives
\* the hasher the slices [k * 2^20, (k + 1) * 2^20) for k = 0, 1, 2, ... in
\* increasing order, each update made once the chunk before it was read, so
\* that the chunks in the order of the calls are the file's bytes with none
\* left out and none given twice; the loop ends after floor(n / 2^20) + 1
\* updates, and digest() is called once, after the last update.
C28_ChunkedHashingOrder ==
    /\ []HashingInOrder
    /\ (pc = "load") ~> (pc = "done")

\* C28 happens: a file of exactly two chunks has been hashed with three
\* updates, the last of them empty, and one digest.
C28_Witness ==
    /\ fn = "calculateB3hashFromFile"
    /\ arg = 2 * 1048576
    /\ pc = "done"
    /\ Len(hasher) = 4
    /\ hasher[3].data = <<arg, arg>>
    /\ hasher[4].op = "digest"

\* C29: for every integer v in [0, 2^32), the values from 2^31 up included,
\* the numToBuf of tools.ts, written with BigInt, and the numToBuf and
\* numberToBuffer of blake3tools.ts, written with % and >>, return the same
\* bytes.
C29_NumToBufAgree ==
    /\ fn = "numToBuf"
        => ret.val = tools_numToBuf(arg.value, arg.bufferSize)
    /\ fn = "tools_numToBuf"
        => /\ ret.val = numToBuf(arg.value, arg.bufferSize)
           /\ ret.val = numberToBuffer(arg.value, arg.bufferSize)

\* C29 happens: 0xABCDEF01, which is above 2^31, is packed by the numToBuf of
\* blake3tools.ts.
C29_Witness ==
    /\ fn = "numToBuf"
    /\ arg.value = <<43981, 61185>>
    /\ ret.val = <<1, 239, 205, 171>>

\* C30: on the CID built from a 33-byte multihash m and a size below 2^32 by
\* generateCIDFromMHash or getS5CidFromMHash, getS5mHashFromCid (the bytes from
\* 1 to length - 5) and extractMHashFromCID (the bytes 1 to 33) return the
\* same 33 bytes, which are m.
C30_ExtractorsAgree ==
    (/\ fn \in {"getS5mHashFromCid", "extractMHashFromCID"}
     /\ src.fn \in {"generateCIDFromMHash", "getS5CidFromMHash"}
     /\ Len(src.arg.mHash) = 33)
        => /\ IsBytes(ret, src.arg.mHash)
           /\ SameResult(getS5mHashFromCid(arg), extractMHashFromCID(arg))

=============================================================================
